---- MODULE Spec2Model ----
(***************************************************************************)
(* SLIP framing (sliplib): the codec (encode / decode / is_valid), the     *)
(* incremental frame decoder (Driver) and the message session              *)
(* (SlipWrapper.recv_msg / send_msg / __iter__).                           *)
(*                                                                         *)
(* Bytes are integers 0..255, byte strings are sequences of bytes.  An     *)
(* optional value (Python None or a value) is a sequence of length <= 1.   *)
(***************************************************************************)
EXTENDS Integers, Sequences, FiniteSets, TLC

(***************************************************************************)
(* Protocol constants (slip.py:48-58)                                      *)
(***************************************************************************)
END == 192

ESC == 219

ESC_END == 220

ESC_ESC == 221

SLIP_FRAME_COMPLETION_TIMEOUT_S == 3

(***************************************************************************)
(* Bounds of the model                                                     *)
(***************************************************************************)
\* longest byte string handed to the codec functions
MaxLen == 3

\* number of segments (packets, noise bytes, stray delimiters) on the wire
MaxSegs == 3

\* largest value of the wall clock
MaxNow == 4

\* an ordinary payload byte ("a") beside the four special bytes
Ordinary == {97}

Bytes == {END, ESC, ESC_END, ESC_ESC} \cup Ordinary

None == << >>

Some(x) == << x >>

RECURSIVE SeqsUpTo(_, _)
SeqsUpTo(S, n) ==
    IF n = 0 THEN { << >> }
    ELSE LET shorter == SeqsUpTo(S, n - 1)
         IN  shorter \cup { Append(s, b) : s \in { t \in shorter : Len(t) = n - 1 }, b \in S }

RECURSIVE Flatten(_)
Flatten(ss) == IF ss = << >> THEN << >> ELSE Head(ss) \o Flatten(Tail(ss))

(***************************************************************************)
(* Python bytes primitives used by the codec                               *)
(***************************************************************************)
\* bytes.replace(old, new): leftmost non-overlapping occurrences
RECURSIVE Replace(_, _, _)
Replace(s, old, new) ==
    IF Len(s) < Len(old) THEN s
    ELSE IF SubSeq(s, 1, Len(old)) = old
         THEN new \o Replace(SubSeq(s, Len(old) + 1, Len(s)), old, new)
         ELSE << Head(s) >> \o Replace(Tail(s), old, new)

\* bytes.strip(b): drop every leading and trailing byte b
RECURSIVE LStrip(_, _)
LStrip(s, b) == IF s # << >> /\ Head(s) = b THEN LStrip(Tail(s), b) ELSE s

RECURSIVE RStrip(_, _)
RStrip(s, b) ==
    IF s # << >> /\ s[Len(s)] = b THEN RStrip(SubSeq(s, 1, Len(s) - 1), b) ELSE s

Strip(s, b) == RStrip(LStrip(s, b), b)

\* b in s
Contains(s, b) == \E i \in 1..Len(s) : s[i] = b

\* s.endswith(b)
EndsWith(s, b) == s # << >> /\ s[Len(s)] = b

\* re.search(ESC + b'[^' + ESC_END + ESC_ESC + b']', s)
BadEscape(s) == \E i \in 1..(Len(s) - 1) : s[i] = ESC /\ s[i + 1] \notin {ESC_END, ESC_ESC}

(***************************************************************************)
(* Codec (slip.py:74-126)                                                  *)
(***************************************************************************)
\* encode that escapes END before ESC, so that the ESC it has just written
\* for an END is escaped again
encode_in_wrong_order(msg) ==
    << END >> \o Replace(Replace(msg, << END >>, << ESC, ESC_END >>),
                         << ESC >>, << ESC, ESC_ESC >>) \o << END >>

\* encode that escapes ESC only and leaves an END of the message as it is
encode_without_end_escape(msg) ==
    << END >> \o Replace(msg, << ESC >>, << ESC, ESC_ESC >>) \o << END >>

encode(msg) ==
    << END >> \o Replace(Replace(msg, << ESC >>, << ESC, ESC_ESC >>),
                         << END >>, << ESC, ESC_END >>) \o << END >>

\* is_valid without its search for an ESC not followed by a substitute
is_valid_without_escape_search(packet) ==
    ~ (Contains(packet, END) \/ EndsWith(packet, ESC))

is_valid(packet) ==
    ~ (Contains(packet, END) \/ EndsWith(packet, ESC) \/ BadEscape(packet))

\* the value decode returns for a packet that passed is_valid
unescape(packet) ==
    Replace(Replace(Strip(packet, END), << ESC, ESC_END >>, << END >>),
            << ESC, ESC_ESC >>, << ESC >>)

\* [raised |-> TRUE, value |-> packet] is ProtocolError(packet)
decode(packet) ==
    IF ~ is_valid(packet)
    THEN [raised |-> TRUE, value |-> packet]
    ELSE [raised |-> FALSE, value |-> unescape(packet)]

(***************************************************************************)
(* Driver (slip.py:129-279).  A Driver is a record of its five fields.     *)
(***************************************************************************)
\* Driver.__init__
NewDriver ==
    [ recv_buffer         |-> << >>,
      packets             |-> << >>,
      messages            |-> << >>,
      curr_frame          |-> None,
      curr_frame_deadline |-> None ]

\* Driver.send
send(message) == encode(message)

\* a pass that opens a frame with a byte found outside of a frame
ScanByteKeepsGarbage(d, t) ==
    LET byte == Head(d.recv_buffer)
        p    == [d EXCEPT !.recv_buffer = Tail(d.recv_buffer)]
    IN  IF byte = END
        THEN IF p.curr_frame = None
             THEN [p EXCEPT !.curr_frame_deadline = Some(t + SLIP_FRAME_COMPLETION_TIMEOUT_S),
                            !.curr_frame = Some(<< >>)]
             ELSE IF t > p.curr_frame_deadline[1]
                  THEN [p EXCEPT !.curr_frame_deadline = Some(t + SLIP_FRAME_COMPLETION_TIMEOUT_S),
                                 !.curr_frame = Some(<< >>)]
                  ELSE [p EXCEPT !.packets = Append(p.packets, p.curr_frame[1]),
                                 !.curr_frame = None]
        ELSE IF p.curr_frame = None
             THEN [p EXCEPT !.curr_frame_deadline = Some(t + SLIP_FRAME_COMPLETION_TIMEOUT_S),
                            !.curr_frame = Some(<< byte >>)]
             ELSE [p EXCEPT !.curr_frame = Some(Append(p.curr_frame[1], byte))]

\* a pass that appends the closing END to the frame it enqueues
ScanByteKeepsDelimiter(d, t) ==
    LET byte == Head(d.recv_buffer)
        p    == [d EXCEPT !.recv_buffer = Tail(d.recv_buffer)]
    IN  IF byte = END
        THEN IF p.curr_frame = None
             THEN [p EXCEPT !.curr_frame_deadline = Some(t + SLIP_FRAME_COMPLETION_TIMEOUT_S),
                            !.curr_frame = Some(<< >>)]
             ELSE IF t > p.curr_frame_deadline[1]
                  THEN [p EXCEPT !.curr_frame_deadline = Some(t + SLIP_FRAME_COMPLETION_TIMEOUT_S),
                                 !.curr_frame = Some(<< >>)]
                  ELSE [p EXCEPT !.packets = Append(p.packets, Append(p.curr_frame[1], byte)),
                                 !.curr_frame = None]
        ELSE IF p.curr_frame = None
             THEN p
             ELSE [p EXCEPT !.curr_frame = Some(Append(p.curr_frame[1], byte))]

\* a pass that takes the frame for timed out as soon as the clock is at its deadline
ScanByteExpiresAtDeadline(d, t) ==
    LET byte == Head(d.recv_buffer)
        p    == [d EXCEPT !.recv_buffer = Tail(d.recv_buffer)]
    IN  IF byte = END
        THEN IF p.curr_frame = None
             THEN [p EXCEPT !.curr_frame_deadline = Some(t + SLIP_FRAME_COMPLETION_TIMEOUT_S),
                            !.curr_frame = Some(<< >>)]
             ELSE IF t >= p.curr_frame_deadline[1]
                  THEN [p EXCEPT !.curr_frame_deadline = Some(t + SLIP_FRAME_COMPLETION_TIMEOUT_S),
                                 !.curr_frame = Some(<< >>)]
                  ELSE [p EXCEPT !.packets = Append(p.packets, p.curr_frame[1]),
                                 !.curr_frame = None]
        ELSE IF p.curr_frame = None
             THEN p
             ELSE [p EXCEPT !.curr_frame = Some(Append(p.curr_frame[1], byte))]

\* a pass that does not close a frame that is still empty
ScanByteSkipsEmptyFrame(d, t) ==
    LET byte == Head(d.recv_buffer)
        p    == [d EXCEPT !.recv_buffer = Tail(d.recv_buffer)]
    IN  IF byte = END
        THEN IF p.curr_frame = None
             THEN [p EXCEPT !.curr_frame_deadline = Some(t + SLIP_FRAME_COMPLETION_TIMEOUT_S),
                            !.curr_frame = Some(<< >>)]
             ELSE IF t > p.curr_frame_deadline[1]
                  THEN [p EXCEPT !.curr_frame_deadline = Some(t + SLIP_FRAME_COMPLETION_TIMEOUT_S),
                                 !.curr_frame = Some(<< >>)]
                  ELSE IF p.curr_frame[1] = << >> THEN p
                  ELSE [p EXCEPT !.packets = Append(p.packets, p.curr_frame[1]),
                                 !.curr_frame = None]
        ELSE IF p.curr_frame = None
             THEN p
             ELSE [p EXCEPT !.curr_frame = Some(Append(p.curr_frame[1], byte))]

\* One pass of the while loop of receive: the byte popped from the head of
\* recv_buffer, with t the value datetime.now() has during this pass.
ScanByte(d, t) ==
    LET byte == Head(d.recv_buffer)
        p    == [d EXCEPT !.recv_buffer = Tail(d.recv_buffer)]
    IN  IF byte = END
        THEN IF p.curr_frame = None
             THEN \* a frame has started
                  [p EXCEPT !.curr_frame_deadline = Some(t + SLIP_FRAME_COMPLETION_TIMEOUT_S),
                            !.curr_frame = Some(<< >>)]
             ELSE IF t > p.curr_frame_deadline[1]
                  THEN \* the frame timed out: this END starts a new frame
                       [p EXCEPT !.curr_frame_deadline = Some(t + SLIP_FRAME_COMPLETION_TIMEOUT_S),
                                 !.curr_frame = Some(<< >>)]
                  ELSE \* a frame has ended
                       [p EXCEPT !.packets = Append(p.packets, p.curr_frame[1]),
                                 !.curr_frame = None]
        ELSE IF p.curr_frame = None
             THEN p  \* out of frame garbage
             ELSE [p EXCEPT !.curr_frame = Some(Append(p.curr_frame[1], byte))]

\* The while loop of receive; at[i] is the clock during its i-th pass.
RECURSIVE Scan(_, _)
Scan(d, at) ==
    IF Len(d.recv_buffer) > 0 THEN Scan(ScanByte(d, Head(at)), Tail(at)) ELSE d

\* an unfinished frame that is dropped when a packet is waiting to be decoded
RestoreUnlessQueued(d) ==
    IF d.curr_frame # None
    THEN [d EXCEPT !.recv_buffer = IF d.packets = << >> THEN << END >> \o d.curr_frame[1] ELSE << >>,
                   !.curr_frame = None]
    ELSE d

\* an unfinished frame that goes back to recv_buffer and stays in curr_frame
RestoreKeepsFrame(d) ==
    IF d.curr_frame # None
    THEN [d EXCEPT !.recv_buffer = << END >> \o d.curr_frame[1]]
    ELSE d

\* After the loop: an unfinished frame goes back to recv_buffer behind an END.
Restore(d) ==
    IF d.curr_frame # None
    THEN [d EXCEPT !.recv_buffer = << END >> \o d.curr_frame[1], !.curr_frame = None]
    ELSE d

\* receive up to the call of flush: buffer the data, scan, restore.
Framing(d, data, at) ==
    IF data # << >>
    THEN Restore(Scan([d EXCEPT !.recv_buffer = d.recv_buffer \o data], at))
    ELSE d

\* Driver.flush with `messages` decoded so far.  The result is the Driver
\* after the call, the list returned (ret) and the packet of the
\* ProtocolError raised (error, None when the call returns).
RECURSIVE FlushLoop(_, _)
FlushLoop(d, messages) ==
    IF d.packets = << >>
    THEN [d |-> d, ret |-> messages, error |-> None]
    ELSE LET packet == Head(d.packets)
             p      == [d EXCEPT !.packets = Tail(d.packets)]
             msg    == decode(packet)
         IN  IF msg.raised
             THEN [d |-> [p EXCEPT !.messages = messages], ret |-> << >>, error |-> Some(msg.value)]
             ELSE FlushLoop(p, Append(messages, msg.value))

\* flush that puts the failing packet back at the head of the queue
flush_keeps_failing(d) ==
    LET r == FlushLoop(d, << >>)
    IN  IF r.error # None
        THEN [r EXCEPT !.d.packets = << r.error[1] >> \o r.d.packets]
        ELSE r

\* flush that does not keep the messages decoded before the failing packet
flush_forgets_decoded(d) ==
    LET r == FlushLoop(d, << >>)
    IN  IF r.error # None THEN [r EXCEPT !.d.messages = d.messages] ELSE r

flush(d) == FlushLoop(d, << >>)

\* Driver.receive
receive(d, data, at) == flush(Framing(d, data, at))

\* a messages property that does not clear what it has returned
messages_without_clear(d) == [d |-> d, ret |-> d.messages]

\* Driver.messages (the property): the value read and the Driver afterwards
messages(d) == [d |-> [d EXCEPT !.messages = << >>], ret |-> d.messages]

(***************************************************************************)
(* State                                                                   *)
(***************************************************************************)
VARIABLES
    codec,    \* the last call of a codec function: op, arg, value, flag, of
    driver,   \* the Driver (of the session, or used directly)
    now,      \* the wall clock, datetime.now()
    segs,     \* what the peer puts on the wire, segment by segment
    wire,     \* the bytes of the stream, read or not
    pos,      \* the number of bytes of the wire read so far
    fedAt,    \* fedAt[i]: the clock when byte i of the wire was first scanned
    call,     \* the last call of a Driver method: op, ret, error
    out,      \* the messages returned by receive and flush so far
    expired,  \* some scan has found a frame deadline passed
    wrapper,  \* the SlipWrapper: messages, protocol_error, flush_needed, stream_closed
    pc,       \* where recv_msg is: "idle" (not running) or "loop" (in its while loop)
    result,   \* how the last recv_msg ended: kind, value, and the read of its last pass
    outcomes, \* the messages returned and the errors raised by recv_msg so far
    iter,     \* the generator of __iter__: "none", "active", "finished" (it has
              \* returned) or "raised" (an exception of recv_msg has left it)
    written,  \* the bytes send_bytes has written to the stream
    sent,     \* the messages send_msg has been called with and has written
    implemented  \* the session's class implements send_bytes, recv_bytes and
                 \* read_timed_out (FALSE: they raise NotImplementedError)

vars == << codec, driver, now, segs, wire, pos, fedAt, call, out, expired,
           wrapper, pc, result, outcomes, iter, written, sent, implemented >>

session_vars == << wrapper, pc, result, outcomes, iter, written, sent, implemented >>

(***************************************************************************)
(* Inputs                                                                  *)
(***************************************************************************)
\* the byte strings handed to the codec functions
CodecInputs == SeqsUpTo(Bytes, MaxLen)

\* the messages the peer sends
WireMsgs == { << >>, << 97 >>, << END >> }

\* what else arrives: a stray delimiter, a noise byte, a packet ending in ESC
Garbage == { << END >>, << 97 >>, << END, ESC, END >> }

\* a segment is a packet made by send (msg is its message) or garbage
Segments ==
    { [msg |-> Some(m), bytes |-> send(m)] : m \in WireMsgs }
        \cup { [msg |-> None, bytes |-> g] : g \in Garbage }

Plans == SeqsUpTo(Segments, MaxSegs)

RECURSIVE WireOf(_)
WireOf(ss) == IF ss = << >> THEN << >> ELSE Head(ss).bytes \o WireOf(Tail(ss))

fed == SubSeq(wire, 1, pos)

\* a wait longer than the frame completion timeout
Late == SLIP_FRAME_COMPLETION_TIMEOUT_S + 1

\* the clock during each pass of a scan of `len` bytes that stalls before pass k
\* (k = 0: no stall)
ClockAt(len, k) == [i \in 1..len |-> IF k # 0 /\ i >= k THEN now + Late ELSE now]

\* the number of passes of a scan that find the frame deadline passed
RECURSIVE Expiries(_, _)
Expiries(d, at) ==
    IF Len(d.recv_buffer) = 0 THEN 0
    ELSE (IF Head(d.recv_buffer) = END /\ d.curr_frame # None
             /\ Head(at) > d.curr_frame_deadline[1] THEN 1 ELSE 0)
         + Expiries(ScanByte(d, Head(at)), Tail(at))

\* no codec function is called in the runs of the Driver and of the session
NoCodec == [op |-> "none", of |-> None, arg |-> << >>, value |-> << >>, flag |-> FALSE]

\* SlipWrapper.__init__ (the Driver it makes is the variable driver)
NewWrapper ==
    [ messages       |-> << >>,
      protocol_error |-> None,
      flush_needed   |-> FALSE,
      stream_closed  |-> FALSE ]

NoResult == [kind |-> "none", value |-> << >>, read |-> "none"]

NoCall == [op |-> "none", ret |-> << >>, error |-> None]

(***************************************************************************)
(* The codec functions, each applied to inputs of bounded length           *)
(***************************************************************************)
\* an input of the codec functions, before any of them is applied
Input(p) == [op |-> "input", of |-> None, arg |-> p, value |-> << >>, flag |-> FALSE]

InitCodec ==
    /\ codec \in { Input(p) : p \in CodecInputs }
    /\ driver = NewDriver
    /\ now = 0
    /\ segs = << >>
    /\ wire = << >>
    /\ pos = 0
    /\ fedAt = << >>
    /\ call = NoCall
    /\ out = << >>
    /\ expired = FALSE
    /\ wrapper = NewWrapper
    /\ pc = "idle"
    /\ result = NoResult
    /\ outcomes = << >>
    /\ iter = "none"
    /\ written = << >>
    /\ sent = << >>
    /\ implemented = TRUE

\* the call encode(msg): value is the packet
EncodeCall(msg) ==
    [op |-> "encode", of |-> None, arg |-> msg, value |-> encode(msg), flag |-> FALSE]

\* the call decode(packet): flag tells that it raised, value is the message
\* or the packet of the ProtocolError; of is the message packet was encoded from
DecodeCall(of, packet) ==
    LET r == decode(packet)
    IN  [op |-> "decode", of |-> of, arg |-> packet, value |-> r.value, flag |-> r.raised]

\* the call is_valid(packet): flag is its result
IsValidCall(of, packet) ==
    [op |-> "is_valid", of |-> of, arg |-> packet, value |-> << >>, flag |-> is_valid(packet)]

CodecEncode ==
    /\ codec.op = "input"
    /\ codec' = EncodeCall(codec.arg)
    /\ UNCHANGED << driver, now, segs, wire, pos, fedAt, call, out, expired, session_vars >>

CodecDecode ==
    /\ codec.op = "input"
    /\ codec' = DecodeCall(None, codec.arg)
    /\ UNCHANGED << driver, now, segs, wire, pos, fedAt, call, out, expired, session_vars >>

CodecIsValid ==
    /\ codec.op = "input"
    /\ codec' = IsValidCall(None, codec.arg)
    /\ UNCHANGED << driver, now, segs, wire, pos, fedAt, call, out, expired, session_vars >>

\* decode(encode(m)): decode applied to the packet encode has just made
CodecDecodeEncoded ==
    /\ codec.op = "encode"
    /\ codec' = DecodeCall(Some(codec.arg), codec.value)
    /\ UNCHANGED << driver, now, segs, wire, pos, fedAt, call, out, expired, session_vars >>

\* is_valid(encode(m))
CodecIsValidEncoded ==
    /\ codec.op = "encode"
    /\ codec' = IsValidCall(Some(codec.arg), codec.value)
    /\ UNCHANGED << driver, now, segs, wire, pos, fedAt, call, out, expired, session_vars >>

NextCodec ==
    \/ CodecEncode
    \/ CodecDecode
    \/ CodecIsValid
    \/ CodecDecodeEncoded
    \/ CodecIsValidEncoded

SpecCodec == InitCodec /\ [][NextCodec]_vars

(***************************************************************************)
(* The Driver used directly: receive, flush, messages, and the clock       *)
(***************************************************************************)
Init ==
    /\ codec = NoCodec
    /\ driver = NewDriver
    /\ now = 0
    /\ segs \in Plans
    /\ wire = WireOf(segs)
    /\ pos = 0
    /\ fedAt = << >>
    /\ call = NoCall
    /\ out = << >>
    /\ expired = FALSE
    /\ wrapper = NewWrapper
    /\ pc = "idle"
    /\ result = NoResult
    /\ outcomes = << >>
    /\ iter = "none"
    /\ written = << >>
    /\ sent = << >>
    /\ implemented = TRUE

\* receive(data) with the next n bytes of the wire.  The clock is read only
\* in the passes of the scan that pop an END (slip.py:205, 209, 215), so the
\* passing of time is a stall before one of them: pass k of the loop (k = 0:
\* no stall; k = 1: the time passed before the call).  Without a stall no
\* deadline passes in the call: the scan starts with no frame open, and a
\* frame it opens has its deadline SLIP_FRAME_COMPLETION_TIMEOUT_S after the
\* one value the clock has during the call.
DriverReceive(n, k) ==
    LET data == SubSeq(wire, pos + 1, pos + n)
        seen == Len(driver.recv_buffer)
        at   == ClockAt(seen + n, k)
    IN  /\ k # 0 => now + Late <= MaxNow
        /\ \E r \in { receive(driver, data, at) } :
              /\ driver' = r.d
              /\ call' = [op |-> "receive", ret |-> r.ret, error |-> r.error]
              /\ out' = out \o r.ret
        /\ now' = IF k # 0 THEN now + Late ELSE now
        /\ pos' = pos + n
        /\ fedAt' = fedAt \o [i \in 1..n |-> at[seen + i]]
        /\ expired' = (expired \/ (n > 0 /\ k # 0 /\
                          Expiries([driver EXCEPT !.recv_buffer = driver.recv_buffer \o data], at) > 0))
        /\ UNCHANGED << codec, segs, wire, session_vars >>

\* the passes of the scan of receive(data) that pop an END
EndPasses(data) ==
    IF data = << >> THEN { }
    ELSE { i \in 1..(Len(driver.recv_buffer) + Len(data)) : (driver.recv_buffer \o data)[i] = END }

Receive ==
    \E n \in 0..(Len(wire) - pos) :
        \E k \in {0} \cup EndPasses(SubSeq(wire, pos + 1, pos + n)) : DriverReceive(n, k)

\* a call of flush that throws the unfinished frame away
FlushClearsBuffer ==
    LET r == flush(driver)
    IN  /\ driver' = [r.d EXCEPT !.recv_buffer = << >>]
        /\ call' = [op |-> "flush", ret |-> r.ret, error |-> r.error]
        /\ out' = out \o r.ret
        /\ UNCHANGED << codec, now, segs, wire, pos, fedAt, expired, session_vars >>

Flush ==
    LET r == flush(driver)
    IN  /\ driver' = r.d
        /\ call' = [op |-> "flush", ret |-> r.ret, error |-> r.error]
        /\ out' = out \o r.ret
        /\ UNCHANGED << codec, now, segs, wire, pos, fedAt, expired, session_vars >>

Messages ==
    LET r == messages(driver)
    IN  /\ driver' = r.d
        /\ call' = [op |-> "messages", ret |-> r.ret, error |-> None]
        /\ UNCHANGED << codec, now, segs, wire, pos, fedAt, out, expired, session_vars >>

Next ==
    \/ Receive
    \/ Flush
    \/ Messages

Spec == Init /\ [][Next]_vars

(***************************************************************************)
(* The while loop of receive, pass by pass, on a fresh Driver whose        *)
(* recv_buffer holds the data of the call; the clock moves between passes  *)
(***************************************************************************)
InitScan ==
    /\ codec = NoCodec
    /\ wire \in SeqsUpTo(Bytes, MaxLen)
    /\ driver = [NewDriver EXCEPT !.recv_buffer = wire]
    /\ now = 0
    /\ segs = << >>
    /\ pos = 0
    /\ fedAt = << >>
    /\ call = NoCall
    /\ out = << >>
    /\ expired = FALSE
    /\ wrapper = NewWrapper
    /\ pc = "idle"
    /\ result = NoResult
    /\ outcomes = << >>
    /\ iter = "none"
    /\ written = << >>
    /\ sent = << >>
    /\ implemented = TRUE

\* one pass of the loop (slip.py:198-225)
ScanPass ==
    /\ Len(driver.recv_buffer) > 0
    /\ driver' = ScanByte(driver, now)
    /\ pos' = pos + 1
    /\ fedAt' = Append(fedAt, now)
    /\ expired' = (expired \/ Expiries([driver EXCEPT !.recv_buffer = << Head(driver.recv_buffer) >>],
                                        << now >>) > 0)
    /\ UNCHANGED << codec, now, segs, wire, call, out, session_vars >>

\* a second passes between two passes
Tick ==
    /\ now < MaxNow
    /\ Len(driver.recv_buffer) > 0
    /\ now' = now + 1
    /\ UNCHANGED << codec, driver, segs, wire, pos, fedAt, call, out, expired, session_vars >>

NextScan ==
    \/ ScanPass
    \/ Tick

SpecScan == InitScan /\ [][NextScan]_vars

(***************************************************************************)
(* SlipWrapper (slipwrapper.py:41-190) over a stream whose read side is    *)
(* the wire.  recv_msg blocks in recv_bytes, so it is one step up to its   *)
(* while loop and one step per pass of the loop; the pass that ends the    *)
(* loop also runs the code behind it (lines 170-174).                      *)
(***************************************************************************)
\* _handle_pending_protocol_error that does not ask for the flush
handle_without_flush_needed(w) ==
    IF w.protocol_error # None
    THEN [w |-> [w EXCEPT !.protocol_error = None], error |-> w.protocol_error]
    ELSE [w |-> w, error |-> None]

\* _handle_pending_protocol_error: the wrapper afterwards, the error raised
handle_pending_protocol_error(w) ==
    IF w.protocol_error # None
    THEN [w |-> [w EXCEPT !.protocol_error = None, !.flush_needed = TRUE],
          error |-> w.protocol_error]
    ELSE [w |-> w, error |-> None]

\* a recv_msg that raises the captured error before it returns the messages
\* decoded before the failing packet
LeaveLoopErrorFirst(w) ==
    LET h == handle_pending_protocol_error(w)
    IN  IF h.error # None
        THEN [w |-> h.w, kind |-> "error", value |-> h.error[1]]
        ELSE IF w.messages # << >>
             THEN [w |-> [w EXCEPT !.messages = Tail(w.messages)],
                   kind |-> "msg", value |-> Head(w.messages)]
             ELSE [w |-> w, kind |-> "sentinel", value |-> << >>]

\* recv_msg behind its loop (lines 170-174): "msg" is a message popped from
\* the queue, "error" the ProtocolError raised, "sentinel" the final b""
LeaveLoop(w) ==
    IF w.messages # << >>
    THEN [w |-> [w EXCEPT !.messages = Tail(w.messages)], kind |-> "msg", value |-> Head(w.messages)]
    ELSE LET h == handle_pending_protocol_error(w)
         IN  IF h.error # None
             THEN [w |-> h.w, kind |-> "error", value |-> h.error[1]]
             ELSE [w |-> w, kind |-> "sentinel", value |-> << >>]

\* the except clause of the loop (lines 164-168)
Except(w, d, error) ==
    LET m == messages(d)
    IN  [w |-> [w EXCEPT !.messages = w.messages \o m.ret, !.protocol_error = error],
         d |-> m.d, brk |-> TRUE]

\* what a call r of receive or flush leaves (lines 145, 163 and the except clause)
Extend(w, r) ==
    IF r.error = None
    THEN [w |-> [w EXCEPT !.messages = w.messages \o r.ret], d |-> r.d, brk |-> FALSE]
    ELSE Except(w, r.d, r.error)

\* a pass that clears flush_needed and does not call flush
FlushPassWithoutFlush(w, d) ==
    [w |-> [w EXCEPT !.flush_needed = FALSE], d |-> d, brk |-> FALSE]

\* a pass with flush_needed set (lines 143-145)
FlushPass(w, d) == Extend([w EXCEPT !.flush_needed = FALSE], flush(d))

\* a pass whose recv_bytes returned data (lines 147, 159-163)
DataPass(w, d, data, at) == Extend(w, receive(d, data, at))

\* a pass whose recv_bytes returned b"" (lines 150-158)
\* an empty read that goes round the loop again when the read timed out
EmptyPassLoopsOnTimeout(w, d, timed_out) ==
    IF timed_out
    THEN [w |-> w, d |-> d, brk |-> FALSE]
    ELSE [w |-> [w EXCEPT !.stream_closed = TRUE], d |-> d, brk |-> TRUE]

\* an empty read that closes the stream whether or not the read timed out
EmptyPassAlwaysCloses(w, d, timed_out) ==
    [w |-> [w EXCEPT !.stream_closed = TRUE], d |-> d, brk |-> TRUE]

EmptyPass(w, d, timed_out) ==
    IF timed_out
    THEN [w |-> w, d |-> d, brk |-> TRUE]
    ELSE [w |-> [w EXCEPT !.stream_closed = TRUE], d |-> d, brk |-> TRUE]

\* the while condition (line 138)
\* a while condition that does not look at stream_closed
LoopConditionIgnoresClosed(w) == w.messages = << >>

LoopCondition(w) == w.messages = << >> /\ ~ w.stream_closed

\* a generator that ends silently when recv_msg raises
iter_after_swallowing(kind, value) ==
    IF iter = "active" /\ (kind \in {"error", "not_implemented"} \/ value = << >>)
    THEN "finished" ELSE iter

\* __iter__ (lines 185-190) after the recv_msg call it made: an exception
\* leaves the generator (it has no handler), a falsy message ends its loop
iter_after(kind, value) ==
    IF iter # "active" THEN iter
    ELSE IF kind \in {"error", "not_implemented"} THEN "raised"
    ELSE IF value = << >> THEN "finished"
    ELSE iter

\* recv_msg ends: it returns value (kinds "msg", "sentinel") or raises
Finish(e, read) ==
    /\ wrapper' = e.w
    /\ pc' = "idle"
    /\ result' = [kind |-> e.kind, value |-> e.value, read |-> read]
    /\ outcomes' = IF e.kind = "sentinel" THEN outcomes
                   ELSE Append(outcomes, [kind |-> e.kind, value |-> e.value])
    /\ iter' = iter_after(e.kind, e.value)

\* the end of a pass p of the loop: leave the loop or go round again
EndPass(p, read) ==
    /\ driver' = p.d
    /\ IF p.brk \/ ~ LoopCondition(p.w)
       THEN Finish(LeaveLoop(p.w), read)
       ELSE /\ wrapper' = p.w
            /\ result' = [kind |-> "none", value |-> << >>, read |-> read]
            /\ UNCHANGED << pc, outcomes, iter >>

\* recv_msg is called (by the generator when one is active): lines 131-138
RecvMsgCall ==
    /\ pc = "idle"
    /\ IF wrapper.messages # << >>
       THEN Finish(LeaveLoop(wrapper), "none")
       ELSE LET h == handle_pending_protocol_error(wrapper)
            IN  IF h.error # None
                THEN Finish([w |-> h.w, kind |-> "error", value |-> h.error[1]], "none")
                ELSE IF LoopCondition(wrapper)
                     THEN /\ pc' = "loop"
                          /\ result' = NoResult
                          /\ UNCHANGED << wrapper, outcomes, iter >>
                     ELSE Finish(LeaveLoop(wrapper), "none")
    /\ UNCHANGED << codec, driver, now, segs, wire, pos, fedAt, call, out, expired, written, sent, implemented >>

RecvMsgFlush ==
    /\ pc = "loop"
    /\ wrapper.flush_needed
    /\ \E p \in { FlushPass(wrapper, driver) } : EndPass(p, "none")
    /\ UNCHANGED << codec, now, segs, wire, pos, fedAt, call, out, expired, written, sent, implemented >>

\* recv_bytes returns the next n bytes of the wire.  In the runs of the
\* session the scan of receive does not stall: the clock stands still and no
\* frame deadline passes (the Driver's timing is the subject of Spec).
SessionRead(n) ==
    LET data == SubSeq(wire, pos + 1, pos + n)
        seen == Len(driver.recv_buffer)
        at   == ClockAt(seen + n, 0)
    IN  /\ \E p \in { DataPass(wrapper, driver, data, at) } : EndPass(p, "data")
        /\ pos' = pos + n
        /\ fedAt' = fedAt \o [i \in 1..n |-> at[seen + i]]
        /\ UNCHANGED << codec, now, segs, wire, call, out, expired, written, sent, implemented >>

RecvMsgRead ==
    /\ pc = "loop"
    /\ implemented
    /\ ~ wrapper.flush_needed
    /\ \E n \in 1..(Len(wire) - pos) : SessionRead(n)

\* recv_bytes returns b"" and read_timed_out() is true
RecvMsgTimeout ==
    /\ pc = "loop"
    /\ implemented
    /\ ~ wrapper.flush_needed
    /\ EndPass(EmptyPass(wrapper, driver, TRUE), "timeout")
    /\ UNCHANGED << codec, now, segs, wire, pos, fedAt, call, out, expired, written, sent, implemented >>

\* recv_bytes returns b"" and read_timed_out() is false
RecvMsgClosed ==
    /\ pc = "loop"
    /\ implemented
    /\ ~ wrapper.flush_needed
    /\ EndPass(EmptyPass(wrapper, driver, FALSE), "closed")
    /\ UNCHANGED << codec, now, segs, wire, pos, fedAt, call, out, expired, written, sent, implemented >>

\* iter(session): a new generator; it runs when recv_msg is next called
IterStart ==
    /\ pc = "idle"
    /\ iter # "active"
    /\ iter' = "active"
    /\ UNCHANGED << codec, driver, now, segs, wire, pos, fedAt, call, out, expired,
                    wrapper, pc, result, outcomes, written, sent, implemented >>

NextSession ==
    \/ RecvMsgCall
    \/ RecvMsgFlush
    \/ RecvMsgRead
    \/ RecvMsgTimeout
    \/ RecvMsgClosed
    \/ IterStart

SpecSession == Init /\ [][NextSession]_vars

\* recv_bytes returns b"": the read timed out or the stream is closed
EmptyRead ==
    \/ RecvMsgTimeout
    \/ RecvMsgClosed

\* The session as the code runs it over a finite stream: a call of recv_msg
\* that is in its loop makes its flush pass when one is due, and a
\* recv_bytes that can only return b"" (the wire is read to its end) does
\* return it.
SpecSessionFair == SpecSession /\ WF_vars(RecvMsgFlush) /\ WF_vars(EmptyRead)

(***************************************************************************)
(* The session with its send side, over a class that implements the       *)
(* stream operations or over SlipWrapper itself, which does not            *)
(***************************************************************************)
\* the number of send_msg calls
MaxSent == 2

\* the messages handed to send_msg
Outgoing == { << 97 >>, << END, ESC >> }

InitSend ==
    /\ codec = NoCodec
    /\ driver = NewDriver
    /\ now = 0
    /\ implemented \in BOOLEAN
    /\ segs \in IF implemented THEN SeqsUpTo(Segments, MaxSegs - 1) ELSE { << >> }
    /\ wire = WireOf(segs)
    /\ pos = 0
    /\ fedAt = << >>
    /\ call = NoCall
    /\ out = << >>
    /\ expired = FALSE
    /\ wrapper = NewWrapper
    /\ pc = "idle"
    /\ result = NoResult
    /\ outcomes = << >>
    /\ iter = "none"
    /\ written = << >>
    /\ sent = << >>

\* how a call ends that has run into NotImplementedError
NotImplemented == [kind |-> "not_implemented", value |-> << >>, read |-> "none"]

\* a send_bytes that writes whatever the class is
send_bytes_never_raises(packet) == [written |-> written \o packet, raised |-> FALSE]

\* send_bytes of SlipWrapper (lines 77-84) and of a class that writes to its
\* stream: the bytes written afterwards, and whether the call raised
send_bytes(packet) ==
    IF implemented
    THEN [written |-> written \o packet, raised |-> FALSE]
    ELSE [written |-> written, raised |-> TRUE]

\* send_msg that hands the message to send_bytes as it is
send_msg_unencoded(message) ==
    LET r == send_bytes(message)
    IN  /\ written' = r.written
        /\ sent' = IF r.raised THEN sent ELSE Append(sent, message)
        /\ result' = IF r.raised THEN NotImplemented ELSE result

\* send_msg (lines 109-116): what it changes
send_msg(message) ==
    LET r == send_bytes(send(message))
    IN  /\ written' = r.written
        /\ sent' = IF r.raised THEN sent ELSE Append(sent, message)
        /\ result' = IF r.raised THEN NotImplemented ELSE result

\* the caller, between two calls of recv_msg, calls send_msg
SendMsg ==
    /\ pc = "idle"
    /\ Len(sent) < MaxSent
    /\ \E m \in Outgoing : send_msg(m)
    /\ UNCHANGED << codec, driver, now, segs, wire, pos, fedAt, call, out, expired,
                    wrapper, pc, outcomes, iter, implemented >>

\* a pass of the loop of recv_msg whose recv_bytes raises NotImplementedError
\* (lines 86-103): the exception leaves recv_msg, and the generator if one runs
RecvMsgNotImplemented ==
    /\ pc = "loop"
    /\ ~ implemented
    /\ ~ wrapper.flush_needed
    /\ pc' = "idle"
    /\ result' = NotImplemented
    /\ iter' = iter_after("not_implemented", << >>)
    /\ UNCHANGED << codec, driver, now, segs, wire, pos, fedAt, call, out, expired,
                    wrapper, outcomes, written, sent, implemented >>

NextSend ==
    \/ NextSession
    \/ SendMsg
    \/ RecvMsgNotImplemented

SpecSend == InitSend /\ [][NextSend]_vars

(***************************************************************************)
(* Properties of the codec (under SpecCodec)                               *)
(***************************************************************************)
\* C8: codec round trip: for every message m, decode(encode(m)) returns m
\* and raises no ProtocolError.
CodecRoundTrip ==
    (codec.op = "decode" /\ codec.of # None)
        => (~ codec.flag /\ codec.value = codec.of[1])

\* C9: is_valid(encode(m)) is true for every message m.
EncodedIsValid ==
    (codec.op = "is_valid" /\ codec.of # None) => codec.flag

\* an END that is neither among the leading nor among the trailing END bytes
EmbeddedEnd(p) ==
    \E i \in 1..Len(p) :
        /\ p[i] = END
        /\ \E j \in 1..(i - 1) : p[j] # END
        /\ \E j \in (i + 1)..Len(p) : p[j] # END

\* the last byte is an ESC
TrailingEscape(p) == Len(p) > 0 /\ p[Len(p)] = ESC

\* some ESC is followed by a byte that is not a substitute
StrayEscape(p) ==
    \E i \in 1..Len(p) : p[i] = ESC /\ i < Len(p) /\ p[i + 1] # ESC_END /\ p[i + 1] # ESC_ESC

\* no END at all, and every ESC is followed by one of the two substitutes
WellEscaped(p) ==
    /\ \A i \in 1..Len(p) : p[i] # END
    /\ \A i \in 1..Len(p) : p[i] = ESC => (i < Len(p) /\ (p[i + 1] = ESC_END \/ p[i + 1] = ESC_ESC))

\* C10: is_valid rejects every packet with an embedded END, a trailing ESC or
\* an ESC followed by a byte that is no substitute, and it accepts every
\* delimiter-free packet in which each ESC is followed by a substitute.
IsValidRejectsAndAccepts ==
    codec.op = "is_valid" =>
        /\ (EmbeddedEnd(codec.arg) \/ TrailingEscape(codec.arg) \/ StrayEscape(codec.arg))
               => ~ codec.flag
        /\ WellEscaped(codec.arg) => codec.flag

\* C10 witness: is_valid has rejected << ESC, 97, ESC_END >>-like input: an ESC
\* followed by an ordinary byte, with no END and no trailing ESC
IsValidRejectedStrayEscape ==
    /\ codec.op = "is_valid"
    /\ StrayEscape(codec.arg)
    /\ ~ TrailingEscape(codec.arg)
    /\ \A i \in 1..Len(codec.arg) : codec.arg[i] # END
    /\ ~ codec.flag

\* C11: escaping correctness: for every message m, encode(m) starts and ends
\* with END, has no other END, and every ESC in it is immediately followed
\* by ESC_END or ESC_ESC.
EscapingCorrectness ==
    codec.op = "encode" =>
        LET p == codec.value
        IN  /\ Len(p) >= 2
            /\ p[1] = END
            /\ p[Len(p)] = END
            /\ \A i \in 2..(Len(p) - 1) : p[i] # END
            /\ \A i \in 1..Len(p) :
                  p[i] = ESC => (i < Len(p) /\ (p[i + 1] = ESC_END \/ p[i + 1] = ESC_ESC))

\* C11 witness: a message with both an END and an ESC has been encoded
EncodedEndAndEscape ==
    /\ codec.op = "encode"
    /\ Contains(codec.arg, END)
    /\ Contains(codec.arg, ESC)
    /\ Len(codec.value) = Len(codec.arg) + 4

(***************************************************************************)
(* Properties of the Driver (under Spec)                                   *)
(***************************************************************************)
IsPrefix(s, t) == Len(s) <= Len(t) /\ SubSeq(t, 1, Len(s)) = s

\* every segment of the wire is a packet made by send
AllSent(ss) == \A i \in 1..Len(ss) : ss[i].msg # None

\* the messages m1..mn of such a wire
SentMsgs(ss) == [i \in 1..Len(ss) |-> ss[i].msg[1]]

\* C1: incremental equivalence: as long as no call has raised, the messages
\* returned so far by the receive calls, however the bytes were split into
\* chunks, and the buffered partial frame are those of one receive call on a
\* fresh Driver with the same bytes, each byte scanned at the same time.
IncrementalEquivalence ==
    LET once == receive(NewDriver, fed, fedAt)
    IN  (call.error = None /\ once.error = None /\ driver.messages = << >>)
            => (out = once.ret /\ driver.recv_buffer = once.d.recv_buffer)

\* the same with no time passing at all: this holds
IncrementalEquivalenceUntimed ==
    LET once == receive(NewDriver, fed, fedAt)
    IN  (now = 0 /\ call.error = None /\ once.error = None /\ driver.messages = << >>)
            => (out = once.ret /\ driver.recv_buffer = once.d.recv_buffer)

\* C2: stream round trip: when the wire is send(m1) + ... + send(mn) and no
\* frame deadline has passed, no call raises, the messages returned so far
\* are the first of m1..mn, and once the whole wire has been fed they are
\* exactly m1..mn.
StreamRoundTrip ==
    (AllSent(segs) /\ ~ expired)
        => /\ call.error = None
           /\ IsPrefix(out, SentMsgs(segs))
           /\ pos = Len(wire) => out = SentMsgs(segs)

\* C2 witness: two or more messages, one of them the byte END, have come out
RoundTripDone ==
    /\ AllSent(segs)
    /\ ~ expired
    /\ Len(segs) >= 2
    /\ \E i \in 1..Len(segs) : segs[i].msg = Some(<< END >>)
    /\ pos = Len(wire)
    /\ out = SentMsgs(segs)

\* the bytes of a packet between its two delimiters
Body(seg) == SubSeq(seg.bytes, 2, Len(seg.bytes) - 1)

\* the wire is a valid packet P1, an invalid packet P2 and a valid packet P3
ValidInvalidValid(ss) ==
    /\ Len(ss) = 3
    /\ ss[1].msg # None
    /\ ss[2] = [msg |-> None, bytes |-> << END, ESC, END >>]
    /\ ss[3].msg # None

\* P1, P2 and P3 have been framed in one receive call, which has raised, and
\* P3 is still queued
RaisedAtP2 == pos = Len(wire) /\ out = << >> /\ driver.packets # << >>

\* C3: error recovery in the Driver: with P1 (valid), P2 (invalid), P3 (valid)
\* in one chunk, receive decodes P1 and raises ProtocolError(P2), the first
\* read of messages then gives [message of P1], and the next flush, or the
\* next receive, returns [message of P3].
ErrorRecovery ==
    [][ (ValidInvalidValid(segs) /\ ~ expired') =>
          /\ (pos = 0 /\ pos' = Len(wire))
                => /\ call'.op = "receive"
                   /\ call'.error = Some(Body(segs[2]))
                   /\ driver'.messages = << segs[1].msg[1] >>
                   /\ driver'.packets = << Body(segs[3]) >>
          /\ (RaisedAtP2 /\ call.op = "receive" /\ call'.op = "messages")
                => call'.ret = << segs[1].msg[1] >>
          /\ (RaisedAtP2 /\ call'.op \in {"flush", "receive"})
                => (call'.ret = << segs[3].msg[1] >> /\ call'.error = None)
      ]_vars

\* C3 witness: after the ProtocolError the message "a" of P1 has been read
\* from messages and flush has returned the message of P3
RecoveredP3 ==
    /\ ValidInvalidValid(segs)
    /\ segs[1].msg = Some(<< 97 >>)
    /\ pos = Len(wire)
    /\ call.op = "flush"
    /\ call.ret = << segs[3].msg[1] >>
    /\ out = call.ret
    /\ driver.messages = << >>
    /\ ~ expired

\* C5: resync.  A lone END that is scanned more than the timeout after the
\* opening END of the frame in progress (the first byte of the buffered
\* frame) discards that frame and opens a new one: nothing is returned and
\* the buffer holds the new, empty frame.  In particular END, a wait longer
\* than the timeout, then END + payload + END gives only the message payload.
Resync ==
    /\ [][ ( /\ call'.op = "receive"
             /\ pos' = pos + 1
             /\ wire[pos'] = END
             /\ driver.recv_buffer # << >>
             /\ fedAt'[pos'] > fedAt[pos - Len(driver.recv_buffer) + 1]
                                  + SLIP_FRAME_COMPLETION_TIMEOUT_S )
           => ( /\ call'.ret = << >>
                /\ call'.error = None
                /\ driver'.recv_buffer = << END >> ) ]_vars
    /\ [] ( ( /\ Len(segs) = 2
              /\ segs[1] = [msg |-> None, bytes |-> << END >>]
              /\ segs[2].msg # None
              /\ pos = Len(wire)
              /\ fedAt[1] = 0
              /\ \A i \in 2..Len(wire) : fedAt[i] = Late )
            => out = << segs[2].msg[1] >> )

\* every segment is a packet made by send or a noise byte
SentAndNoise(ss) == \A i \in 1..Len(ss) : ss[i].msg # None \/ ss[i].bytes = << 97 >>

\* the messages of the packets that lie within the first n bytes of the wire
RECURSIVE ReadMsgs(_, _)
ReadMsgs(ss, n) ==
    IF ss = << >> \/ Len(Head(ss).bytes) > n THEN << >>
    ELSE Head(ss).msg \o ReadMsgs(Tail(ss), n - Len(Head(ss).bytes))

\* the bytes read of the segment that the n-th byte of the wire cuts in two
RECURSIVE PartialSegment(_, _)
PartialSegment(ss, n) ==
    IF ss = << >> \/ n = 0 THEN << >>
    ELSE IF Len(Head(ss).bytes) > n THEN SubSeq(Head(ss).bytes, 1, n)
    ELSE PartialSegment(Tail(ss), n - Len(Head(ss).bytes))

\* C12: out-of-frame noise: a non-delimiter byte that arrives while the
\* Driver is between frames is discarded.  A receive call made between
\* frames with a chunk that begins with such a byte does what the call
\* without that byte does; and on a wire of packets with noise bytes before
\* and between them, no call raises, the messages returned are exactly
\* those of the packets read, and the buffer holds the bytes of the
\* unfinished packet only.
OutOfFrameNoise ==
    /\ [][ ( /\ call'.op = "receive"
             /\ driver.recv_buffer = << >>
             /\ pos' > pos
             /\ wire[pos + 1] # END )
           => \E r \in { receive(driver, SubSeq(wire, pos + 2, pos'),
                                 SubSeq(fedAt', pos + 2, pos')) } :
                 /\ driver' = r.d
                 /\ call'.ret = r.ret
                 /\ call'.error = r.error ]_vars
    /\ [] ( (SentAndNoise(segs) /\ ~ expired)
              => /\ call.error = None
                 /\ out = ReadMsgs(segs, pos)
                 /\ driver.recv_buffer = PartialSegment(segs, pos)
                 /\ driver.messages = << >> )

\* C12 witness: noise before the first packet and noise between two packets,
\* the last noise byte fed in a chunk of its own, and both messages are out
NoiseDiscarded ==
    /\ Len(segs) = 3
    /\ segs[1].msg # None
    /\ segs[2].bytes = << 97 >>
    /\ segs[3].msg = Some(<< 97 >>)
    /\ pos = Len(wire)
    /\ ~ expired
    /\ out = << segs[1].msg[1], << 97 >> >>
    /\ driver.recv_buffer = << >>

(***************************************************************************)
(* Properties of the session (under SpecSession)                           *)
(***************************************************************************)
\* the wire carries frames only (packets, with noise between them): no
\* stray delimiter puts the framing out of phase
FramesOnly(ss) == \A i \in 1..Len(ss) : ss[i].bytes # << END >>

\* the outcome a segment must have: its message for a packet made by send,
\* a ProtocolError with the frame for the packet ending in ESC, none for noise
SegmentOutcome(seg) ==
    IF seg.msg # None THEN << [kind |-> "msg", value |-> seg.msg[1]] >>
    ELSE IF Len(seg.bytes) > 1 THEN << [kind |-> "error", value |-> Body(seg)] >>
    ELSE << >>

\* the outcomes of the segments that lie within the first n bytes of the wire
RECURSIVE FrameOutcomes(_, _)
FrameOutcomes(ss, n) ==
    IF ss = << >> \/ Len(Head(ss).bytes) > n THEN << >>
    ELSE SegmentOutcome(Head(ss)) \o FrameOutcomes(Tail(ss), n - Len(Head(ss).bytes))

\* what recv_msg still has to hand out, in order: the queued messages, the
\* captured error, the packets queued in the Driver
Queued ==
    [i \in 1..Len(wrapper.messages) |-> [kind |-> "msg", value |-> wrapper.messages[i]]]
    \o (IF wrapper.protocol_error # None
        THEN << [kind |-> "error", value |-> wrapper.protocol_error[1]] >> ELSE << >>)
    \o [i \in 1..Len(driver.packets) |->
           LET r == decode(driver.packets[i])
           IN  [kind |-> IF r.raised THEN "error" ELSE "msg", value |-> r.value]]

\* C4: session recovery without loss or duplication: the messages returned
\* and errors raised so far, followed by what is still queued, are exactly
\* the outcomes of the frames read so far, one per frame and in stream order;
\* and recv_msg never returns the sentinel while an outcome is queued.
SessionRecovery ==
    FramesOnly(segs) =>
        /\ outcomes \o Queued = FrameOutcomes(segs, pos)
        /\ (pc = "idle" /\ result.kind = "sentinel") => Queued = << >>

\* C4 witness: message, error, message have been handed out for P1, P2, P3
SessionRecovered ==
    /\ ValidInvalidValid(segs)
    /\ pos = Len(wire)
    /\ outcomes = << [kind |-> "msg", value |-> segs[1].msg[1]],
                     [kind |-> "error", value |-> << ESC >>],
                     [kind |-> "msg", value |-> segs[3].msg[1]] >>

\* C6 as claimed: after a read that timed out recv_msg is still in its loop,
\* with the stream open; it has not returned.
ReadTimeoutLoopsAgain ==
    result.read = "timeout" => (pc = "loop" /\ ~ wrapper.stream_closed)

\* C6 as amended: a read that timed out leaves the stream open but ends the
\* call: recv_msg returns the sentinel b"" to its caller.
ReadTimeoutReturnsSentinel ==
    result.read = "timeout"
        => /\ pc = "idle"
           /\ result.kind = "sentinel"
           /\ result.value = << >>
           /\ ~ wrapper.stream_closed

\* C6 witness: recv_msg has returned on a timeout in the middle of a frame
ReturnedOnTimeout ==
    /\ result.read = "timeout"
    /\ pc = "idle"
    /\ driver.recv_buffer # << >>
    /\ pos < Len(wire)

\* C7: permanent close: the call in which recv_bytes returns b"" without a
\* timeout returns the sentinel b"" and ends the iteration, and from then on
\* every recv_msg returns b"" at once, without a read of the stream.
PermanentClose ==
    [][ wrapper'.stream_closed =>
          /\ pc' = "idle"
          /\ result'.kind = "sentinel"
          /\ result'.value = << >>
          /\ Queued' = << >>
          /\ iter = "active" => iter' = "finished"
          /\ wrapper.stream_closed
                => (pc = "idle" /\ pos' = pos /\ result'.read \in {"none", "closed"})
      ]_vars

\* C7 witness: the stream was closed in the middle of a frame, the iteration
\* has ended and a later call has returned the sentinel without reading
ClosedForGood ==
    /\ wrapper.stream_closed
    /\ iter = "finished"
    /\ result = [kind |-> "sentinel", value |-> << >>, read |-> "none"]
    /\ pos < Len(wire)
    /\ driver.recv_buffer # << >>

(***************************************************************************)
(* Properties of receive, flush and messages, call by call (under Spec)    *)
(***************************************************************************)
\* what decoding gives for each packet of a queue: a message or an error
PacketOutcomes(q) ==
    [i \in 1..Len(q) |->
        LET r == decode(q[i])
        IN  [kind |-> IF r.raised THEN "error" ELSE "msg", value |-> r.value]]

\* the outcomes of the frames completed by the bytes p+1..q of the wire
RECURSIVE NewOutcomes(_, _, _)
NewOutcomes(ss, p, q) ==
    IF ss = << >> \/ Len(Head(ss).bytes) > q THEN << >>
    ELSE (IF Len(Head(ss).bytes) > p THEN SegmentOutcome(Head(ss)) ELSE << >>)
         \o NewOutcomes(Tail(ss), p - Len(Head(ss).bytes), q - Len(Head(ss).bytes))

\* the index of the first error among outcomes T (Len(T) + 1 when none)
RECURSIVE FirstError(_)
FirstError(T) ==
    IF T = << >> \/ Head(T).kind = "error" THEN 1 ELSE 1 + FirstError(Tail(T))

\* the messages in front of the first error of T
LeadingMsgs(T) == [i \in 1..(FirstError(T) - 1) |-> T[i].value]

\* what a receive call that reads the wire up to q has to decode: the packets
\* that were queued, then the frames its chunk completes
ToDecode(q) == PacketOutcomes(driver.packets) \o NewOutcomes(segs, pos, q)

\* C13: single-use error accessor: a receive or flush that raises leaves in
\* messages exactly the messages it decoded before the failing packet, in
\* order; a call that returns leaves messages alone; a read of messages
\* returns them and clears them, so that a read directly after a read
\* returns the empty list.
SingleUseAccessor ==
    [][ /\ (call'.op = "flush" /\ call'.error # None)
              => driver'.messages = LeadingMsgs(PacketOutcomes(driver.packets))
        /\ (call'.op = "receive" /\ call'.error # None /\ FramesOnly(segs) /\ ~ expired')
              => driver'.messages = LeadingMsgs(ToDecode(pos'))
        /\ (call'.op \in {"receive", "flush"} /\ call'.error = None)
              => driver'.messages = driver.messages
        /\ call'.op = "messages"
              => (call'.ret = driver.messages /\ driver'.messages = << >>)
        /\ (call.op = "messages" /\ call'.op = "messages") => call'.ret = << >>
      ]_vars

\* C13 witness: two different messages decoded before the failing packet
\* have been read from messages, in their order
AccessorRead ==
    /\ call.op = "messages"
    /\ Len(call.ret) = 2
    /\ call.ret[1] # call.ret[2]
    /\ call.ret = << segs[1].msg[1], segs[2].msg[1] >>
    /\ driver.messages = << >>

\* C14: flush decodes the queued packets in queue order: when all of them
\* are valid it returns their messages and empties the queue, else it
\* raises; in both cases the receive buffer, the frame in progress and its
\* deadline are what they were.
FlushFrame ==
    [][ call'.op = "flush" =>
          /\ driver'.recv_buffer = driver.recv_buffer
          /\ driver'.curr_frame = driver.curr_frame
          /\ driver'.curr_frame_deadline = driver.curr_frame_deadline
          /\ LET T == PacketOutcomes(driver.packets)
             IN  IF FirstError(T) > Len(T)
                 THEN /\ call'.error = None
                      /\ call'.ret = [i \in 1..Len(T) |-> T[i].value]
                      /\ driver'.packets = << >>
                 ELSE /\ call'.error # None
                      /\ call'.ret = << >>
      ]_vars

\* C14 witness: flush has returned the message of a queued packet while the
\* receive buffer holds an unfinished frame
FlushedBesideFrame ==
    /\ call.op = "flush"
    /\ call.error = None
    /\ Len(call.ret) >= 1
    /\ driver.recv_buffer # << >>
    /\ driver.curr_frame_deadline # None

\* C15: framing never fails.  After every receive call the whole chunk has
\* been scanned: the buffer is empty or is one END with the bytes of the
\* unfinished frame.  A ProtocolError carries a packet that is_valid
\* rejects.  On a wire of frames, whether the call returns or raises, the
\* buffer holds the unfinished frame of the wire, and every frame the chunk
\* completes has been decoded, has raised the error, or is queued.
FramingNeverFails ==
    [][ call'.op = "receive" =>
          /\ driver'.recv_buffer # << >>
                => /\ Head(driver'.recv_buffer) = END
                   /\ ~ Contains(Tail(driver'.recv_buffer), END)
          /\ driver'.curr_frame = None
          /\ call'.error # None => ~ is_valid(call'.error[1])
          /\ (FramesOnly(segs) /\ ~ expired')
                => /\ driver'.recv_buffer = PartialSegment(segs, pos')
                   /\ call'.error = None => driver'.packets = << >>
                   /\ call'.error # None
                         => \E T \in { ToDecode(pos') } : \E i \in { FirstError(T) } :
                               /\ i <= Len(T)
                               /\ call'.error = Some(T[i].value)
                               /\ PacketOutcomes(driver'.packets) = SubSeq(T, i + 1, Len(T))
      ]_vars

\* C15 witness: a receive call has raised for an invalid packet with a packet
\* of the same chunk queued behind it and the unfinished frame buffered
RaisedWithChunkKept ==
    /\ call.op = "receive"
    /\ call.error # None
    /\ FramesOnly(segs)
    /\ ~ expired
    /\ driver.packets # << >>
    /\ Len(driver.recv_buffer) >= 2

\* the first invalid packet of a queue (Len(q) + 1 when all are valid)
FirstInvalid(q) == FirstError(PacketOutcomes(q))

\* C18: per-packet failure: a flush or receive that finds an invalid packet
\* in the queue raises one ProtocolError with the bytes of the first such
\* packet; that packet and those before it are gone from the queue and the
\* packets behind it stay queued in their order (in front of the packets the
\* chunk of a receive adds), so no later call meets the same packet again.
PerPacketFailure ==
    [][ LET q == driver.packets
            i == FirstInvalid(q)
        IN  /\ (call'.op \in {"flush", "receive"} /\ i <= Len(q))
                  => /\ call'.error = Some(q[i])
                     /\ IsPrefix(SubSeq(q, i + 1, Len(q)), driver'.packets)
            /\ (call'.op = "flush" /\ i <= Len(q))
                  => driver'.packets = SubSeq(q, i + 1, Len(q))
            /\ (call'.op \in {"flush", "receive"} /\ call'.error # None)
                  => /\ ~ is_valid(call'.error[1])
                     /\ Len(driver'.packets) < Len(q) + (pos' - pos)
      ]_vars

\* C18 witness: two invalid packets arrived in one chunk; receive raised for
\* the first, flush has raised for the second and the queue is empty
RaisedOncePerPacket ==
    /\ Len(segs) >= 2
    /\ segs[1].bytes = << END, ESC, END >>
    /\ segs[2].bytes = << END, ESC, END >>
    /\ call.op = "flush"
    /\ call.error = Some(<< ESC >>)
    /\ driver.packets = << >>
    /\ pos = Len(wire)

\* C19: receive with an empty chunk flushes the buffer: the bytes buffered
\* by earlier receive calls do not stay in the receive buffer, they are
\* decoded and returned by that call.
EmptyChunkForcesFlush ==
    [][ (call'.op = "receive" /\ pos' = pos /\ driver.recv_buffer # << >>)
          => /\ driver'.recv_buffer = << >>
             /\ call'.error = None => call'.ret # << >>
      ]_vars

(***************************************************************************)
(* Properties of iteration (under SpecSession) and of the send side and    *)
(* the unimplemented stream operations (under SpecSend)                    *)
(***************************************************************************)
\* C16: iteration over a session ends without an exception only in a step in
\* which recv_msg returns b""; when recv_msg raises ProtocolError during the
\* iteration the error reaches the caller and the generator is left by the
\* exception, not by a silent end; a non-empty message keeps it running.
IterationStops ==
    [][ iter = "active" =>
          /\ iter' = "finished"
                => (pc' = "idle" /\ result'.kind \in {"msg", "sentinel"} /\ result'.value = << >>)
          /\ (pc' = "idle" /\ result'.kind = "error")
                => /\ iter' = "raised"
                   /\ outcomes' = Append(outcomes, [kind |-> "error", value |-> result'.value])
          /\ (pc' = "idle" /\ result'.kind = "msg" /\ result'.value # << >>)
                => iter' = "active"
      ]_vars

\* C16 witness: the iteration gave a message and was then left by the
\* ProtocolError of the next packet
IterationRaised ==
    /\ iter = "raised"
    /\ result.kind = "error"
    /\ Len(outcomes) = 2
    /\ outcomes[1].kind = "msg"
    /\ outcomes[2] = [kind |-> "error", value |-> << ESC >>]

\* the packets of messages ms, one behind the other
RECURSIVE Packets(_)
Packets(ms) == IF ms = << >> THEN << >> ELSE encode(Head(ms)) \o Packets(Tail(ms))

\* C17: send_msg writes exactly encode(message): after send_msg(m1), ...,
\* send_msg(mn) the bytes written are encode(m1) + ... + encode(mn), and a
\* send_msg call leaves the message queue, the pending error, the flush
\* flag, the closed flag and the Driver as they were.
SendWritesPacket ==
    /\ [] (implemented => written = Packets(sent))
    /\ [][ (implemented /\ sent' # sent)
             => /\ \E m \in Outgoing : sent' = Append(sent, m) /\ written' = written \o encode(m)
                /\ wrapper' = wrapper
                /\ driver' = driver ]_vars

\* C17 witness: two messages have been sent, the second with an END and an
\* ESC, while the session held a queued message
SentTwo ==
    /\ implemented
    /\ Len(sent) = 2
    /\ sent[1] = << 97 >>
    /\ sent[2] = << END, ESC >>
    /\ written = << END, 97, END, END, ESC, ESC_END, ESC, ESC_ESC, END >>
    /\ wrapper.messages # << >>

\* C20: on a SlipWrapper whose stream operations are not implemented, recv_msg
\* and send_msg end with NotImplementedError: no call returns a message or
\* the sentinel, nothing is written, and the message queue, the pending
\* error, the flush flag and the closed flag stay what they were.
NotImplementedFails ==
    /\ [] (~ implemented
             => /\ wrapper = NewWrapper
                /\ written = << >>
                /\ sent = << >>
                /\ outcomes = << >>
                /\ result.kind \in {"none", "not_implemented"})
    /\ [][ ~ implemented =>
             /\ wrapper' = wrapper
             /\ pc = "loop" => (pc' = "idle" /\ result' = NotImplemented)
             /\ (pc = "idle" /\ pc' = "idle" /\ iter' = iter) => result' = NotImplemented
         ]_vars

\* C20 witness: recv_msg, called by a generator, has ended with
\* NotImplementedError
RecvNotImplemented ==
    /\ ~ implemented
    /\ result = NotImplemented
    /\ iter = "raised"
    /\ pc = "idle"
    /\ wrapper = NewWrapper

(***************************************************************************)
(* Properties of the framing (under Spec and SpecScan)                     *)
(***************************************************************************)
\* C21: no packet in the queue of completed packets contains an END, and
\* neither does a packet that was taken from the queue and raised the
\* ProtocolError, or the unfinished frame behind the END that opened it.
QueuedWithoutDelimiter ==
    /\ \A i \in 1..Len(driver.packets) : ~ Contains(driver.packets[i], END)
    /\ call.error # None => ~ Contains(call.error[1], END)
    /\ driver.curr_frame # None => ~ Contains(driver.curr_frame[1], END)

\* C21 witness: two packets are queued behind the packet that raised
TwoQueued ==
    /\ Len(driver.packets) = 2
    /\ call.error # None
    /\ pos = Len(wire)

\* C22: a pass that pops an END inside a frame: when the clock is not past
\* the deadline, the accumulator is enqueued as one packet and the Driver
\* is between frames; when it is past the deadline, nothing is enqueued and
\* the Driver is inside a frame with an empty accumulator and the deadline
\* now + SLIP_FRAME_COMPLETION_TIMEOUT_S.
EndInsideFrame ==
    [][ ( /\ driver' # driver
          /\ Head(driver.recv_buffer) = END
          /\ driver.curr_frame # None )
        => IF now <= driver.curr_frame_deadline[1]
           THEN /\ driver'.packets = Append(driver.packets, driver.curr_frame[1])
                /\ driver'.curr_frame = None
           ELSE /\ driver'.packets = driver.packets
                /\ driver'.curr_frame = Some(<< >>)
                /\ driver'.curr_frame_deadline = Some(now + SLIP_FRAME_COMPLETION_TIMEOUT_S)
      ]_vars

\* C22 witness: a frame with a byte in it was discarded at a late END, which
\* has opened a new, empty frame with a deadline of its own
ResyncedAndClosed ==
    /\ expired
    /\ wire = << END, 97, END >> \/ wire = << END, ESC, END >>
    /\ pos = 3
    /\ driver.curr_frame = Some(<< >>)
    /\ driver.packets = << >>
    /\ driver.curr_frame_deadline = Some(now + SLIP_FRAME_COMPLETION_TIMEOUT_S)

\* the number of END bytes in s
RECURSIVE Ends(_)
Ends(s) == IF s = << >> THEN 0 ELSE (IF Head(s) = END THEN 1 ELSE 0) + Ends(Tail(s))

\* C23: the deadline of a frame stays in force while the frame is
\* incomplete: a receive call that brings more bytes of the unfinished
\* frame, and no END, leaves the frame in progress and does not move its
\* deadline.
DeadlineSurvives ==
    [][ ( /\ call'.op = "receive"
          /\ pos' > pos
          /\ driver.recv_buffer # << >>
          /\ Ends(SubSeq(wire, pos + 1, pos')) = 0 )
        => /\ driver'.recv_buffer = driver.recv_buffer \o SubSeq(wire, pos + 1, pos')
           /\ driver'.curr_frame_deadline = driver.curr_frame_deadline
      ]_vars

\* C25: after every receive call, and between any two calls, the accumulator
\* field is cleared and the receive buffer is empty or is one END followed
\* by bytes that are not END; and when no deadline has passed, those bytes
\* are the bytes read since the last END of the wire, so that no
\* out-of-frame byte and no completed frame stays in the buffer.
BufferShape ==
    /\ driver.curr_frame = None
    /\ driver.recv_buffer # << >>
          => /\ Head(driver.recv_buffer) = END
             /\ Ends(driver.recv_buffer) = 1
    /\ ~ expired
          => /\ Ends(fed) % 2 = 0 => driver.recv_buffer = << >>
             /\ Ends(fed) % 2 = 1
                   => \E i \in 1..pos :
                         /\ wire[i] = END
                         /\ driver.recv_buffer = SubSeq(wire, i, pos)

\* C25 witness: a receive call has raised, and the buffer holds the END and
\* the byte of the unfinished frame that came in the same chunk
ShapeAfterRaise ==
    /\ call.op = "receive"
    /\ call.error # None
    /\ Len(driver.recv_buffer) = 2
    /\ driver.recv_buffer[2] # END
    /\ ~ expired

\* no segment of the wire is the packet that ends in ESC
NoBadPacket(ss) == \A i \in 1..Len(ss) : ss[i].bytes # << END, ESC, END >>

\* C28: with no frame deadline expiring every END toggles the framing
\* state: when the bytes consumed hold k END bytes, the Driver holds a frame
\* in progress iff k is odd; and the packets enqueued are k \div 2: on a wire
\* without an invalid packet no call raises and k \div 2 messages have been
\* returned, none being left in the queue.
EndToggles ==
    ~ expired =>
        /\ (driver.recv_buffer # << >>) <=> (Ends(fed) % 2 = 1)
        /\ NoBadPacket(segs)
              => /\ call.error = None
                 /\ driver.packets = << >>
                 /\ Len(out) = Ends(fed) \div 2

\* C28 witness: five END bytes, fed in more than one call: two packets and a
\* frame in progress
ToggledFiveTimes ==
    /\ ~ expired
    /\ Ends(fed) = 5
    /\ Len(fedAt) = pos
    /\ Len(out) = 2
    /\ call.ret # out
    /\ driver.recv_buffer # << >>

(***************************************************************************)
(* Properties of recv_msg, call by call (under SpecSession and             *)
(* SpecSessionFair)                                                        *)
(***************************************************************************)
\* this step is a call of recv_msg that started with recv_msg not running
CallStep == pc = "idle" /\ ~ (iter # "active" /\ iter' = "active")

\* C24: recv_msg with a non-empty queue returns its head and touches neither
\* the stream nor the Driver; the captured ProtocolError is raised only with
\* the queue empty, once (the capture is cleared), and sets flush_needed;
\* and a call that finds flush_needed set enters the loop, whose first pass
\* is the flush of the Driver's queue, not a read.
QueueFirst ==
    [][ /\ (CallStep /\ wrapper.messages # << >>)
              => /\ pc' = "idle"
                 /\ result' = [kind |-> "msg", value |-> Head(wrapper.messages), read |-> "none"]
                 /\ wrapper' = [wrapper EXCEPT !.messages = Tail(wrapper.messages)]
                 /\ driver' = driver
                 /\ pos' = pos
        /\ (CallStep /\ wrapper.messages = << >> /\ wrapper.protocol_error # None)
              => /\ pc' = "idle"
                 /\ result'.kind = "error"
                 /\ result'.value = wrapper.protocol_error[1]
                 /\ pos' = pos
        /\ (pc' = "idle" /\ result'.kind = "error" /\ outcomes' # outcomes)
              => /\ wrapper.messages = << >>
                 /\ wrapper'.messages = << >>
                 /\ wrapper'.protocol_error = None
                 /\ wrapper'.flush_needed
                 /\ outcomes' = Append(outcomes, [kind |-> "error", value |-> result'.value])
        /\ (CallStep /\ wrapper.flush_needed) => pc' = "loop"
        /\ (pc = "loop" /\ wrapper.flush_needed)
              => /\ pos' = pos
                 /\ result'.read = "none"
                 /\ driver'.recv_buffer = driver.recv_buffer
                 /\ driver'.packets = << >> \/ result'.kind = "error" \/ wrapper'.protocol_error # None
      ]_vars

\* C24 witness: a message, then the error of the bad packet, then the message
\* that was queued behind it, which came from the flush and not from a read
DrainedBehindError ==
    /\ pc = "idle"
    /\ Len(outcomes) = 3
    /\ outcomes[1].kind = "msg"
    /\ outcomes[2].kind = "error"
    /\ outcomes[3] = [kind |-> "msg", value |-> << 97 >>]
    /\ result = [kind |-> "msg", value |-> << 97 >>, read |-> "none"]
    /\ ~ wrapper.flush_needed

\* C26: when the stream is marked closed no ProtocolError is pending,
\* flush_needed is false and the Driver's packet queue is empty.
ClosedNothingPending ==
    wrapper.stream_closed
        => /\ wrapper.protocol_error = None
           /\ ~ wrapper.flush_needed
           /\ driver.packets = << >>
           /\ wrapper.messages = << >>

\* C26 witness: the stream was closed after an error had been raised and the
\* message queued behind the bad packet had been returned
ClosedAfterRecovery ==
    /\ wrapper.stream_closed
    /\ Len(outcomes) >= 2
    /\ outcomes[Len(outcomes) - 1].kind = "error"
    /\ outcomes[Len(outcomes)].kind = "msg"
    /\ pos = Len(wire)

\* C27: a zero-length message that recv_msg returns while the stream is open
\* does not end the iteration.
ZeroLengthKeepsIterating ==
    [][ ( /\ iter = "active"
          /\ pc' = "idle"
          /\ outcomes' = Append(outcomes, [kind |-> "msg", value |-> << >>])
          /\ ~ wrapper'.stream_closed )
        => iter' = "active" ]_vars

\* C29: every recv_msg call ends when the stream keeps returning from
\* recv_bytes; each pass of its loop is one flush (no byte is read) or one
\* read; and the call ends in the pass after which a message is queued, an
\* error has been captured or the read was empty, and in no other pass.  A
\* flush pass clears the flush-pending flag; the flag is set again only by
\* raising the error that this flush captured.
RecvMsgTerminates ==
    /\ (pc = "loop") ~> (pc = "idle")
    /\ [][ pc = "loop" =>
             /\ wrapper.flush_needed
                   => /\ pos' = pos /\ result'.read = "none"
                      /\ wrapper'.flush_needed => result'.kind = "error"
             /\ ~ wrapper.flush_needed
                   => /\ result'.read \in {"data", "timeout", "closed"}
                      /\ result'.read = "data" <=> pos' > pos
             /\ pc' = "idle"
                   <=> \/ result'.kind \in {"msg", "error"}
                       \/ result'.read \in {"timeout", "closed"}
         ]_vars

\* C29 witness: a call that made a flush pass, which gave nothing, and then
\* a read pass has returned the message read
ReturnedAfterTwoPasses ==
    /\ pc = "idle"
    /\ outcomes = << [kind |-> "error", value |-> << ESC >>],
                     [kind |-> "msg", value |-> << 97 >>] >>
    /\ result = [kind |-> "msg", value |-> << 97 >>, read |-> "data"]
    /\ ~ wrapper.flush_needed
    /\ pos = Len(wire)

====
